---- MODULE Spec2Model ----
(***************************************************************************)
(* Model of generate-html.js: the Google Authenticator migration decoder.  *)
(*                                                                         *)
(* Data representation                                                     *)
(*   - a Buffer is a sequence of bytes (0..255);                           *)
(*   - the base64 text of the data query parameter is a sequence of        *)
(*     one-character strings;                                              *)
(*   - a JS string read from the payload is a sequence of character codes; *)
(*     strings the program builds (URL parts, hex, base32) are TLA+        *)
(*     strings built with \o;                                              *)
(*   - an optional property of a JS object is a sequence of length 0       *)
(*     (undefined) or 1 (<<value>>);                                       *)
(*   - an enum property is the property key it is used as: the enum name,  *)
(*     "undefined" when the property is absent, the decimal number when    *)
(*     the number is no declared value.                                    *)
(***************************************************************************)
EXTENDS Integers, Sequences, FiniteSets, TLC

\* Bounds of the model: URIs on the command line, records per payload,
\* bytes cut from the end of a truncated payload.
MaxUrls == 2
MaxRecords == 2
MaxCut == 2

Undefined == "undefined"

Range(s) == {s[i] : i \in DOMAIN s}

Min(a, b) == IF a < b THEN a ELSE b

RECURSIVE Pow(_, _)
Pow(b, e) == IF e = 0 THEN 1 ELSE b * Pow(b, e - 1)

\* Array.prototype.flat() on an array of arrays.
RECURSIVE Flat(_)
Flat(ss) == IF ss = <<>> THEN <<>> ELSE Head(ss) \o Flat(Tail(ss))

\* Array.prototype.join(sep) on an array of strings.
RECURSIVE Join(_, _)
Join(ss, sep) ==
  IF ss = <<>> THEN ""
  ELSE IF Len(ss) = 1 THEN ss[1]
  ELSE ss[1] \o sep \o Join(Tail(ss), sep)

(***************************************************************************)
(* Text encodings used by the program: hex, base32, percent-encoding.      *)
(***************************************************************************)

HexDigits == <<"0","1","2","3","4","5","6","7","8","9","a","b","c","d","e","f">>

HexDigitsUpper == <<"0","1","2","3","4","5","6","7","8","9","A","B","C","D","E","F">>

\* Buffer.toString('hex'): two lowercase hex digits per byte.
RECURSIVE toHex(_)
toHex(bytes) ==
  IF bytes = <<>> THEN ""
  ELSE HexDigits[(bytes[1] \div 16) + 1] \o HexDigits[(bytes[1] % 16) + 1]
       \o toHex(Tail(bytes))

\* RFC 4648 base32 alphabet.
Base32Chars ==
  <<"A","B","C","D","E","F","G","H","I","J","K","L","M","N","O","P",
    "Q","R","S","T","U","V","W","X","Y","Z","2","3","4","5","6","7">>

\* The bits of a byte sequence, most significant bit first.
RECURSIVE BitsOf(_)
BitsOf(bytes) ==
  IF bytes = <<>> THEN <<>>
  ELSE [k \in 1..8 |-> (bytes[1] \div Pow(2, 8 - k)) % 2] \o BitsOf(Tail(bytes))

\* base32.encode(bytes): one character per 5-bit group, the last group
\* zero-filled, then '=' up to a multiple of 8 characters.
RECURSIVE Base32Groups(_)
Base32Groups(bits) ==
  IF bits = <<>> THEN <<>>
  ELSE LET g == [k \in 1..5 |-> IF k <= Len(bits) THEN bits[k] ELSE 0]
           v == 16 * g[1] + 8 * g[2] + 4 * g[3] + 2 * g[4] + g[5]
           rest == IF Len(bits) <= 5 THEN <<>> ELSE SubSeq(bits, 6, Len(bits))
       IN  <<Base32Chars[v + 1]>> \o Base32Groups(rest)

base32_encode(bytes) ==
  LET chars == Base32Groups(BitsOf(bytes))
  IN  chars \o [k \in 1..((8 - (Len(chars) % 8)) % 8) |-> "="]

\* base32.encode(secretBytes).replace(/=/g, '')
secretToBase32(secretBytes) ==
  Join(SelectSeq(base32_encode(secretBytes), LAMBDA c : c # "="), "")

\* A JS string is a sequence of code points.  The characters
\* encodeURIComponent leaves alone: letters, digits and - _ . ! ~ * ( ) and
\* the apostrophe.
UpperCase ==
  <<"A","B","C","D","E","F","G","H","I","J","K","L","M",
    "N","O","P","Q","R","S","T","U","V","W","X","Y","Z">>

LowerCase ==
  <<"a","b","c","d","e","f","g","h","i","j","k","l","m",
    "n","o","p","q","r","s","t","u","v","w","x","y","z">>

Digits == <<"0","1","2","3","4","5","6","7","8","9">>

Unreserved(code) ==
  \/ code \in 48..57
  \/ code \in 65..90
  \/ code \in 97..122
  \/ code \in {45, 95, 46, 33, 126, 42, 39, 40, 41}

\* The character of an unreserved code point.
Chr(code) ==
  CASE code \in 48..57 -> Digits[code - 47]
    [] code \in 65..90 -> UpperCase[code - 64]
    [] code \in 97..122 -> LowerCase[code - 96]
    [] code = 45 -> "-"
    [] code = 95 -> "_"
    [] code = 46 -> "."
    [] code = 33 -> "!"
    [] code = 126 -> "~"
    [] code = 42 -> "*"
    [] code = 39 -> "'"
    [] code = 40 -> "("
    [] code = 41 -> ")"

\* %XX of one byte.
PercentByte(b) ==
  "%" \o HexDigitsUpper[(b \div 16) + 1] \o HexDigitsUpper[(b % 16) + 1]

\* encodeURIComponent of one code point: itself if unreserved, else the
\* bytes of its UTF-8 encoding, each as %XX (code points up to U+FFFF, no
\* surrogates: utf8Slice produces none).
EncodeCodePoint(code) ==
  IF Unreserved(code) THEN Chr(code)
  ELSE IF code < 128 THEN PercentByte(code)
  ELSE IF code < 2048
  THEN PercentByte(192 + (code \div 64)) \o PercentByte(128 + (code % 64))
  ELSE PercentByte(224 + (code \div 4096))
       \o PercentByte(128 + ((code \div 64) % 64))
       \o PercentByte(128 + (code % 64))

RECURSIVE encodeURIComponentChars(_)
encodeURIComponentChars(str) ==
  IF str = <<>> THEN ""
  ELSE EncodeCodePoint(str[1]) \o encodeURIComponentChars(Tail(str))

\* encodeURIComponent(undefined) is "undefined".
encodeURIComponent(opt) ==
  IF opt = <<>> THEN Undefined ELSE encodeURIComponentChars(opt[1])

\* buf.utf8Slice(start, end) on the bytes between start and end: a byte below
\* 128 is its code point, a two-byte sequence (lead C2..DF, one continuation
\* byte) is decoded, any other byte becomes U+FFFD.  (Three- and four-byte
\* sequences do not occur in the payloads of this model.)
RECURSIVE utf8Slice(_)
utf8Slice(bs) ==
  IF bs = <<>> THEN <<>>
  ELSE IF bs[1] < 128 THEN <<bs[1]>> \o utf8Slice(Tail(bs))
  ELSE IF bs[1] \in 194..223 /\ Len(bs) >= 2 /\ bs[2] \in 128..191
  THEN <<(bs[1] - 192) * 64 + (bs[2] - 128)>> \o utf8Slice(SubSeq(bs, 3, Len(bs)))
  ELSE <<65533>> \o utf8Slice(Tail(bs))

(***************************************************************************)
(* Base64 (Buffer.from(data, 'base64')) and the query string.              *)
(***************************************************************************)

Base64Chars ==
  <<"A","B","C","D","E","F","G","H","I","J","K","L","M","N","O","P",
    "Q","R","S","T","U","V","W","X","Y","Z","a","b","c","d","e","f",
    "g","h","i","j","k","l","m","n","o","p","q","r","s","t","u","v",
    "w","x","y","z","0","1","2","3","4","5","6","7","8","9","+","/">>

Base64Alphabet == Range(Base64Chars)

unbase64(c) == (CHOOSE i \in 1..64 : Base64Chars[i] = c) - 1

\* The decoder never raises: it reads up to the first '=', skips every
\* character outside the alphabet, and turns each group of four sextets into
\* three bytes; a last group of two or three sextets gives one or two bytes
\* and a lone last sextet gives none.
RECURSIVE UpToPad(_)
UpToPad(text) ==
  IF text = <<>> \/ text[1] = "=" THEN <<>>
  ELSE <<text[1]>> \o UpToPad(Tail(text))

RECURSIVE SextetsToBytes(_)
SextetsToBytes(sx) ==
  IF Len(sx) < 2 THEN <<>>
  ELSE LET b1 == 4 * sx[1] + (sx[2] \div 16)
       IN  IF Len(sx) = 2 THEN <<b1>>
           ELSE LET b2 == 16 * (sx[2] % 16) + (sx[3] \div 4)
                IN  IF Len(sx) = 3 THEN <<b1, b2>>
                    ELSE <<b1, b2, 64 * (sx[3] % 4) + sx[4]>>
                         \o SextetsToBytes(SubSeq(sx, 5, Len(sx)))

BufferFromBase64(text) ==
  LET legal == SelectSeq(UpToPad(text), LAMBDA c : c \in Base64Alphabet)
  IN  SextetsToBytes([k \in 1..Len(legal) |-> unbase64(legal[k])])

\* url.parse(u, true) decodes the query string: a '+' of the raw query is a
\* space in parsedUrl.query.data.
QueryValue(raw) == [k \in 1..Len(raw) |-> IF raw[k] = "+" THEN " " ELSE raw[k]]

\* data.replace(/ /g, '+')
SpacesToPlus(data) == [k \in 1..Len(data) |-> IF data[k] = " " THEN "+" ELSE data[k]]

\* extractDataFromUrl: raised for a wrong scheme or host, otherwise the
\* Buffer decoded from the data parameter ('' when there is none).
extractDataFromUrl(migrationUrl) ==
  IF migrationUrl.protocol # "otpauth-migration:" \/ migrationUrl.host # "offline"
  THEN [raised |-> TRUE, data |-> <<>>]
  ELSE [raised |-> FALSE,
        data |-> BufferFromBase64(SpacesToPlus(QueryValue(migrationUrl.data)))]

(***************************************************************************)
(* The protobuf reader (protobufjs Reader on a Buffer).  A read returns     *)
(* [ok, val, pos]: ok is FALSE when the read raises, pos is the reader's    *)
(* position (0-based) after the read.                                      *)
(***************************************************************************)

Raise == [ok |-> FALSE, val |-> 0, pos |-> 0]

Ok(v, p) == [ok |-> TRUE, val |-> v, pos |-> p]

\* Number of bytes of the varint at pos, at most max; 0 when the buffer ends
\* or max bytes pass before a byte below 128.
VarintLen(buf, pos, max) ==
  LET ends == {n \in 1..max : pos + n <= Len(buf) /\ buf[pos + n] < 128}
  IN  IF ends = {} THEN 0 ELSE CHOOSE n \in ends : \A k \in ends : n <= k

\* Value of the n-byte varint at pos, 7 bits per byte, low bits first.  The
\* bits from 2^31 up are dropped (TLC's integers): such a value is longer
\* than every buffer and names no field or enum value of the schema, with or
\* without them.
RECURSIVE VarintVal(_, _, _)
VarintVal(buf, pos, n) ==
  IF n = 0 THEN 0
  ELSE VarintVal(buf, pos, n - 1)
       + (IF n <= 4 THEN (buf[pos + n] % 128) * Pow(128, n - 1)
          ELSE IF n = 5 THEN (buf[pos + n] % 8) * Pow(2, 28)
          ELSE 0)

\* Reader.uint32: up to five bytes; with no end in five bytes it skips five
\* more and raises if that passes the end of the buffer.
uint32_n(buf, pos, n) ==
  IF n > 0 THEN Ok(VarintVal(buf, pos, n), pos + n)
  ELSE IF pos + 10 > Len(buf) THEN Raise
  ELSE Ok(VarintVal(buf, pos, 5), pos + 10)

uint32(buf, pos) == uint32_n(buf, pos, VarintLen(buf, pos, 5))

\* Reader.int32 is uint32 | 0.
int32(buf, pos) == uint32(buf, pos)

\* Reader.uint64: up to ten bytes, raises when the buffer ends first.
uint64_n(buf, pos, n) ==
  IF n > 0 THEN Ok(VarintVal(buf, pos, n), pos + n) ELSE Raise

uint64(buf, pos) == uint64_n(buf, pos, VarintLen(buf, pos, 10))

\* Reader.bytes: raises when the length l passes the end of the buffer.
bytes_l(buf, l) ==
  IF ~l.ok THEN Raise
  ELSE IF l.pos + l.val > Len(buf) THEN Raise
  ELSE Ok(SubSeq(buf, l.pos + 1, l.pos + l.val), l.pos + l.val)

bytes(buf, pos) == bytes_l(buf, uint32(buf, pos))

\* BufferReader.string: utf8Slice(pos, Math.min(pos + len, this.len)).  A
\* length that passes the end of the buffer does not raise: the string is
\* what is left of the buffer.
string_l(buf, l) ==
  IF ~l.ok THEN Raise
  ELSE Ok(utf8Slice(SubSeq(buf, l.pos + 1, Min(l.pos + l.val, Len(buf)))),
          Min(l.pos + l.val, Len(buf)))

string(buf, pos) == string_l(buf, uint32(buf, pos))

\* Reader.skip(length) and Reader.skip().
skip(buf, pos, length) ==
  IF pos + length > Len(buf) THEN Raise ELSE Ok(0, pos + length)

skip_l(buf, l) == IF ~l.ok THEN Raise ELSE skip(buf, l.pos, l.val)

skipVarint_n(pos, n) == IF n = 0 THEN Raise ELSE Ok(0, pos + n)

skipVarint(buf, pos) == skipVarint_n(pos, VarintLen(buf, pos, Len(buf)))

\* Reader.skipType: wire types 0, 1, 2, 3 (a group, up to its end tag) and 5;
\* any other wire type raises "invalid wire type".
RECURSIVE skipType(_, _, _)
RECURSIVE skipGroup(_, _)
RECURSIVE skipGroup_t(_, _)
RECURSIVE skipGroup_r(_, _)

skipGroup_r(buf, r) == IF ~r.ok THEN Raise ELSE skipGroup(buf, r.pos)

skipGroup_t(buf, t) ==
  IF ~t.ok THEN Raise
  ELSE IF t.val % 8 = 4 THEN Ok(0, t.pos)
  ELSE skipGroup_r(buf, skipType(buf, t.pos, t.val % 8))

skipGroup(buf, pos) == skipGroup_t(buf, uint32(buf, pos))

skipType(buf, pos, wireType) ==
  CASE wireType = 0 -> skipVarint(buf, pos)
    [] wireType = 1 -> skip(buf, pos, 8)
    [] wireType = 2 -> skip_l(buf, uint32(buf, pos))
    [] wireType = 3 -> skipGroup(buf, pos)
    [] wireType = 5 -> skip(buf, pos, 4)
    [] OTHER -> Raise

(***************************************************************************)
(* The schema (protoDefinition) and the decoder protobufjs generates for   *)
(* it.  A decoded message holds only the fields met on the wire.           *)
(***************************************************************************)

Algorithm ==
  <<"ALGORITHM_UNSPECIFIED", "ALGORITHM_SHA1", "ALGORITHM_SHA256",
    "ALGORITHM_SHA512", "ALGORITHM_MD5">>

DigitCount == <<"DIGIT_COUNT_UNSPECIFIED", "DIGIT_COUNT_SIX", "DIGIT_COUNT_EIGHT">>

OtpType == <<"OTP_TYPE_UNSPECIFIED", "OTP_TYPE_HOTP", "OTP_TYPE_TOTP">>

NewOtpParameters ==
  [secret |-> <<>>, name |-> <<>>, issuer |-> <<>>, algorithm |-> <<>>,
   digits |-> <<>>, type |-> <<>>, counter |-> <<>>]

\* The field a tag of message OtpParameters assigns.
SetOtpField(m, field, v) ==
  CASE field = 1 -> [m EXCEPT !.secret = <<v>>]
    [] field = 2 -> [m EXCEPT !.name = <<v>>]
    [] field = 3 -> [m EXCEPT !.issuer = <<v>>]
    [] field = 4 -> [m EXCEPT !.algorithm = <<v>>]
    [] field = 5 -> [m EXCEPT !.digits = <<v>>]
    [] field = 6 -> [m EXCEPT !.type = <<v>>]
    [] field = 7 -> [m EXCEPT !.counter = <<v>>]
    [] OTHER -> m

\* OtpParameters.decode(r, l): reads fields while r.pos < c, c = r.pos + l.
\* The generated decoder switches on the field number alone (t >>> 3), and
\* skips an unknown field by its wire type (t & 7).
ReadOtpField(buf, pos, field, wireType) ==
  CASE field = 1 -> bytes(buf, pos)
    [] field \in {2, 3} -> string(buf, pos)
    [] field \in {4, 5, 6} -> int32(buf, pos)
    [] field = 7 -> uint64(buf, pos)
    [] OTHER -> skipType(buf, pos, wireType)

RECURSIVE OtpParameters_decode(_, _, _, _)
RECURSIVE OtpParameters_tag(_, _, _, _)
RECURSIVE OtpParameters_field(_, _, _, _, _)

OtpParameters_field(buf, c, m, field, r) ==
  IF ~r.ok THEN Raise
  ELSE OtpParameters_decode(buf, r.pos, c, SetOtpField(m, field, r.val))

OtpParameters_tag(buf, c, m, t) ==
  IF ~t.ok THEN Raise
  ELSE OtpParameters_field(buf, c, m, t.val \div 8,
                           ReadOtpField(buf, t.pos, t.val \div 8, t.val % 8))

OtpParameters_decode(buf, pos, c, m) ==
  IF pos >= c THEN Ok(m, pos)
  ELSE OtpParameters_tag(buf, c, m, uint32(buf, pos))

\* Payload.decode(data): otp_parameters = 1 is decoded and pushed; version,
\* batch_size, batch_index and batch_id (2..5) are read as int32; the rest is
\* skipped.  The value is the list of decoded OtpParameters messages.
OtpParameters_decode_l(buf, l) ==
  IF ~l.ok THEN Raise
  ELSE OtpParameters_decode(buf, l.pos, l.pos + l.val, NewOtpParameters)

ReadPayloadField(buf, pos, field, wireType) ==
  CASE field = 1 -> OtpParameters_decode_l(buf, uint32(buf, pos))
    [] field \in 2..5 -> int32(buf, pos)
    [] OTHER -> skipType(buf, pos, wireType)

RECURSIVE Payload_decode(_, _, _)
RECURSIVE Payload_tag(_, _, _)
RECURSIVE Payload_field(_, _, _, _)

Payload_field(buf, otpParameters, field, r) ==
  IF ~r.ok THEN Raise
  ELSE Payload_decode(buf, r.pos,
                      IF field = 1 THEN Append(otpParameters, r.val)
                      ELSE otpParameters)

Payload_tag(buf, otpParameters, t) ==
  IF ~t.ok THEN Raise
  ELSE Payload_field(buf, otpParameters, t.val \div 8,
                     ReadPayloadField(buf, t.pos, t.val \div 8, t.val % 8))

Payload_decode(buf, pos, otpParameters) ==
  IF pos >= Len(buf) THEN Ok(otpParameters, pos)
  ELSE Payload_tag(buf, otpParameters, uint32(buf, pos))

\* enums: String - the name of a declared value, else the number itself.
EnumName(values, opt) ==
  IF opt = <<>> THEN Undefined
  ELSE IF opt[1] + 1 \in DOMAIN values THEN values[opt[1] + 1]
  ELSE ToString(opt[1])

\* OtpParameters.toObject(m, {longs: String, enums: String, bytes: Buffer}),
\* without defaults: a field the message does not hold is left out.
OtpParameters_toObject(m) ==
  [secret |-> m.secret,
   name |-> m.name,
   issuer |-> m.issuer,
   algorithm |-> EnumName(Algorithm, m.algorithm),
   digits |-> EnumName(DigitCount, m.digits),
   type |-> EnumName(OtpType, m.type),
   counter |-> IF m.counter = <<>> THEN <<>> ELSE <<ToString(m.counter[1])>>]

\* Payload.toObject: without arrays or defaults, otpParameters is set only
\* when the message holds at least one record.
Payload_toObject(otpParameters) ==
  [otpParameters |->
     IF otpParameters = <<>> THEN <<>>
     ELSE <<[k \in 1..Len(otpParameters) |-> OtpParameters_toObject(otpParameters[k])]>>]

(***************************************************************************)
(* Normalization tables and the URI reconstructor.                         *)
(***************************************************************************)

algorithmNames ==
  ("ALGORITHM_UNSPECIFIED" :> "SHA1") @@ ("ALGORITHM_SHA1" :> "SHA1")
  @@ ("ALGORITHM_SHA256" :> "SHA256") @@ ("ALGORITHM_SHA512" :> "SHA512")
  @@ ("ALGORITHM_MD5" :> "MD5")

digitCounts ==
  ("DIGIT_COUNT_UNSPECIFIED" :> "6") @@ ("DIGIT_COUNT_SIX" :> "6")
  @@ ("DIGIT_COUNT_EIGHT" :> "8")

\* Mutant of otpTypes: the default type is hotp.
otpTypesHotpDefault ==
  ("OTP_TYPE_UNSPECIFIED" :> "hotp") @@ ("OTP_TYPE_HOTP" :> "hotp")
  @@ ("OTP_TYPE_TOTP" :> "totp")

otpTypes ==
  ("OTP_TYPE_UNSPECIFIED" :> "totp") @@ ("OTP_TYPE_HOTP" :> "hotp")
  @@ ("OTP_TYPE_TOTP" :> "totp")

\* table[key] on a JS object: undefined for a key the object does not have.
Lookup(table, key) == IF key \in DOMAIN table THEN table[key] ELSE Undefined

\* The queryParams array of createOtpauthUrl, one [k, v] per `k=v` entry.
queryParams(params, otpType) ==
  <<[k |-> "secret", v |-> secretToBase32(params.secret[1])]>>
  \o (IF params.issuer # <<>> /\ params.issuer[1] # <<>>
      THEN <<[k |-> "issuer", v |-> encodeURIComponent(params.issuer)]>>
      ELSE <<>>)
  \o <<[k |-> "algorithm", v |-> Lookup(algorithmNames, params.algorithm)]>>
  \o <<[k |-> "digits", v |-> Lookup(digitCounts, params.digits)]>>
  \o (IF otpType = "hotp" /\ params.counter # <<>> /\ params.counter[1] # ""
      THEN <<[k |-> "counter", v |-> params.counter[1]]>>
      ELSE <<>>)
  \o (IF otpType = "totp" THEN <<[k |-> "period", v |-> "30"]>> ELSE <<>>)

\* createOtpauthUrl(params).  base32.encode(undefined) raises a TypeError, so
\* the call raises for a record without a secret.  The URL is kept in parts:
\* otpauth://${otpType}/${path}?${queryParams.join('&')}.
createOtpauthUrl(params) ==
  LET otpType == Lookup(otpTypes, params.type)
  IN  IF params.secret = <<>>
      THEN [raised |-> TRUE, url |-> <<>>]
      ELSE [raised |-> FALSE,
            url |-> <<[otpType |-> otpType,
                       path |-> encodeURIComponent(params.name),
                       queryParams |-> queryParams(params, otpType)]>>]

\* The URL as the string createOtpauthUrl returns.
UrlString(url) ==
  "otpauth://" \o url.otpType \o "/" \o url.path \o "?"
  \o Join([k \in 1..Len(url.queryParams) |->
             url.queryParams[k].k \o "=" \o url.queryParams[k].v], "&")

\* The object the map callback of decodeUrl returns for one record.
Account(params) ==
  [name |-> params.name,
   issuer |-> params.issuer,
   secret |-> toHex(params.secret[1]),
   type |-> params.type,
   algorithm |-> params.algorithm,
   digits |-> params.digits,
   otpauthUrl |-> createOtpauthUrl(params).url[1],
   qrCodeDataUrl |-> <<>>]

\* Mutant of Caught: the catch block returns [] without console.error.
CaughtSilently(stage, handed, decoded) ==
  [accounts |-> <<>>, errors |-> 0, failedAt |-> stage, handed |-> handed,
   decoded |-> decoded]

\* What the catch block of decodeUrl does: one console.error, return [].
\* failedAt, handed (the bytes given to Payload.decode, if any) and decoded
\* (the records Payload.decode returned, if it returned) record how far the
\* call got.
Caught(stage, handed, decoded) ==
  [accounts |-> <<>>, errors |-> 1, failedAt |-> stage, handed |-> handed,
   decoded |-> decoded]

\* payload.otpParameters.map(params => ...): a TypeError when the property
\* is undefined or when createOtpauthUrl raises for a record; a raised error
\* leaves the callback and the map, whatever was mapped before it.
MapParams(data, otpParameters) ==
  IF otpParameters = <<>> THEN Caught("map", <<data>>, 0)
  ELSE IF \E k \in 1..Len(otpParameters[1]) :
            createOtpauthUrl(otpParameters[1][k]).raised
  THEN Caught("map", <<data>>, Len(otpParameters[1]))
  ELSE [accounts |-> [k \in 1..Len(otpParameters[1]) |-> Account(otpParameters[1][k])],
        errors |-> 0, failedAt |-> "none", handed |-> <<data>>,
        decoded |-> Len(otpParameters[1])]

\* Payload.decode(data) raised, or Payload.toObject and the map follow.
DecodeData(data, d) ==
  IF ~d.ok THEN Caught("decode", <<data>>, 0)
  ELSE MapParams(data, Payload_toObject(d.val).otpParameters)

\* extractDataFromUrl raised, or Payload.decode follows.
DecodeExtracted(x) ==
  IF x.raised THEN Caught("extract", <<>>, 0)
  ELSE DecodeData(x.data, Payload_decode(x.data, 0, <<>>))

\* decodeUrl(migrationUrl): the whole body runs at the call (it awaits
\* nothing), inside one try/catch.
decodeUrl(migrationUrl) == DecodeExtracted(extractDataFromUrl(migrationUrl))

\* `${value || '-'}` for a string property that may be undefined or empty.
OrDash(opt) == IF opt = <<>> \/ opt[1] = <<>> THEN <<45>> ELSE opt[1]

\* generateHtml(accounts): one <tr> per account and the summary line.
generateHtml(accounts) ==
  [rows |-> [k \in 1..Len(accounts) |->
               [name |-> OrDash(accounts[k].name),
                issuer |-> OrDash(accounts[k].issuer),
                secret |-> accounts[k].secret,
                type |-> accounts[k].type,
                algorithm |-> accounts[k].algorithm,
                digits |-> accounts[k].digits,
                href |-> UrlString(accounts[k].otpauthUrl),
                img |-> accounts[k].qrCodeDataUrl]],
   total |-> Len(accounts)]

(***************************************************************************)
(* The inputs: migration URIs built from known payloads.  Each URI of a    *)
(* run comes with the case it was built from ([kind, records, cut]), which *)
(* the program never reads.                                                *)
(***************************************************************************)

\* Standard base64 with '=' padding.
RECURSIVE Base64Encode(_)
Base64Encode(bs) ==
  IF bs = <<>> THEN <<>>
  ELSE LET b1 == bs[1]
           b2 == IF Len(bs) >= 2 THEN bs[2] ELSE 0
           b3 == IF Len(bs) >= 3 THEN bs[3] ELSE 0
           c1 == Base64Chars[(b1 \div 4) + 1]
           c2 == Base64Chars[16 * (b1 % 4) + (b2 \div 16) + 1]
           c3 == Base64Chars[4 * (b2 % 16) + (b3 \div 64) + 1]
           c4 == Base64Chars[(b3 % 64) + 1]
       IN  IF Len(bs) = 1 THEN <<c1, c2, "=", "=">>
           ELSE IF Len(bs) = 2 THEN <<c1, c2, c3, "=">>
           ELSE <<c1, c2, c3, c4>> \o Base64Encode(SubSeq(bs, 4, Len(bs)))

\* Valid standard base64: alphabet characters, at most two '=' at the end,
\* a multiple of four characters.
ValidBase64(text) ==
  /\ Len(text) % 4 = 0
  /\ \A k \in 1..Len(text) :
       \/ text[k] \in Base64Alphabet
       \/ text[k] = "=" /\ k > Len(text) - 2
                        /\ \A j \in k..Len(text) : text[j] = "="

\* The wire encoding of one record: the fields it holds, in field order.
EncodeRecord(r) ==
  (IF r.secret = <<>> THEN <<>> ELSE <<10, Len(r.secret[1])>> \o r.secret[1])
  \o (IF r.name = <<>> THEN <<>> ELSE <<18, Len(r.name[1])>> \o r.name[1])
  \o (IF r.issuer = <<>> THEN <<>> ELSE <<26, Len(r.issuer[1])>> \o r.issuer[1])
  \o (IF r.algorithm = <<>> THEN <<>> ELSE <<32, r.algorithm[1]>>)
  \o (IF r.digits = <<>> THEN <<>> ELSE <<40, r.digits[1]>>)
  \o (IF r.type = <<>> THEN <<>> ELSE <<48, r.type[1]>>)
  \o (IF r.counter = <<>> THEN <<>> ELSE <<56, r.counter[1]>>)

\* The same with a name length of 127, more than any payload of the model
\* has left after it.
EncodeRecordLong(r) ==
  (IF r.secret = <<>> THEN <<>> ELSE <<10, Len(r.secret[1])>> \o r.secret[1])
  \o <<18, 127>> \o r.name[1]
  \o (IF r.issuer = <<>> THEN <<>> ELSE <<26, Len(r.issuer[1])>> \o r.issuer[1])
  \o (IF r.algorithm = <<>> THEN <<>> ELSE <<32, r.algorithm[1]>>)
  \o (IF r.digits = <<>> THEN <<>> ELSE <<40, r.digits[1]>>)
  \o (IF r.type = <<>> THEN <<>> ELSE <<48, r.type[1]>>)
  \o (IF r.counter = <<>> THEN <<>> ELSE <<56, r.counter[1]>>)

RECURSIVE EncodeRecords(_)
EncodeRecords(rs) ==
  IF rs = <<>> THEN <<>>
  ELSE <<10, Len(EncodeRecord(rs[1]))>> \o EncodeRecord(rs[1])
       \o EncodeRecords(Tail(rs))

Hello == <<72, 101, 108, 108, 111>>
Alice == <<97, 108, 105, 99, 101>>
Bob == <<98, 111, 98>>
Example == <<69, 120, 97, 109, 112, 108, 101>>

\* SHA256 / 8 digits / TOTP, with an issuer.
RecFull ==
  [secret |-> <<Hello>>, name |-> <<Alice>>, issuer |-> <<Example>>,
   algorithm |-> <<2>>, digits |-> <<2>>, type |-> <<2>>, counter |-> <<>>]

\* HOTP with counter 5.
RecHotp ==
  [secret |-> <<(<<222, 173>>)>>, name |-> <<Bob>>, issuer |-> <<>>,
   algorithm |-> <<1>>, digits |-> <<1>>, type |-> <<1>>, counter |-> <<5>>]

\* HOTP with the counter field on the wire, value 0.
RecHotpZero == [RecHotp EXCEPT !.counter = <<0>>]

\* No algorithm, digits, type or counter field on the wire.
RecBare ==
  [secret |-> <<Hello>>, name |-> <<(<<97, 64, 98, 32, 99>>)>>, issuer |-> <<>>,
   algorithm |-> <<>>, digits |-> <<>>, type |-> <<>>, counter |-> <<>>]

\* No secret field on the wire.
RecNoSecret == [RecFull EXCEPT !.secret = <<>>]

\* The three enum fields on the wire with value 0; empty name.
RecZeros ==
  [secret |-> <<(<<1, 2, 3>>)>>, name |-> <<(<<>>)>>, issuer |-> <<>>,
   algorithm |-> <<0>>, digits |-> <<0>>, type |-> <<0>>, counter |-> <<>>]

\* A type number the schema does not declare.
RecUnknownType ==
  [secret |-> <<(<<255>>)>>, name |-> <<Bob>>, issuer |-> <<Example>>,
   algorithm |-> <<4>>, digits |-> <<1>>, type |-> <<7>>, counter |-> <<5>>]

RecordCases ==
  {RecFull, RecHotp, RecHotpZero, RecBare, RecNoSecret, RecZeros, RecUnknownType}

Payloads == UNION {[1..n -> RecordCases] : n \in 0..MaxRecords}

Kinds ==
  {"valid", "batched", "unknownField", "invalidWire", "truncated", "longString",
   "badBase64", "wrongScheme", "wrongHost", "noData"}

\* The payload bytes of a case.
PayloadBytes(c) ==
  LET enc == EncodeRecords(c.records)
  IN  CASE c.kind = "batched" -> enc \o <<16, 1, 24, 1, 32, 0, 40, 7>>
        [] c.kind = "unknownField" -> <<122, 2, 0, 0, 120, 1>> \o enc
        [] c.kind = "invalidWire" -> enc \o <<63>>
        [] c.kind = "truncated" -> SubSeq(enc, 1, Len(enc) - c.cut)
        [] c.kind = "longString" ->
             <<10, Len(EncodeRecordLong(c.records[1]))>>
             \o EncodeRecordLong(c.records[1]) \o EncodeRecords(Tail(c.records))
        [] OTHER -> enc

\* The URI of a case.
BuildUrl(c) ==
  LET text == Base64Encode(PayloadBytes(c))
  IN  [protocol |-> IF c.kind = "wrongScheme" THEN "otpauth:" ELSE "otpauth-migration:",
       host |-> IF c.kind = "wrongHost" THEN "online" ELSE "offline",
       data |-> CASE c.kind = "noData" -> <<>>
                  [] c.kind = "badBase64" -> <<text[1], "!">> \o Tail(text)
                  [] OTHER -> text]

\* A truncated case cuts 1..MaxCut bytes, fewer than the last record's frame,
\* so the cut falls inside that frame.  A longString case declares the name
\* of its first record longer than the payload.
WellFormedCase(c) ==
  /\ c.kind = "truncated" =>
       /\ c.records # <<>>
       /\ c.cut \in 1..MaxCut
       /\ c.cut < Len(EncodeRecord(c.records[Len(c.records)])) + 2
  /\ c.kind # "truncated" => c.cut = 0
  /\ c.kind = "noData" => c.records = <<>>
  /\ c.kind = "badBase64" => c.records # <<>>
  /\ c.kind = "longString" => c.records # <<>> /\ c.records[1].name # <<>>

Cases ==
  {c \in [kind : Kinds, records : Payloads, cut : 0..MaxCut] : WellFormedCase(c)}

\* The cases runs of several URIs are made of.
BatchCases ==
  {[kind |-> "valid", records |-> <<RecFull, RecHotp>>, cut |-> 0],
   [kind |-> "valid", records |-> <<RecZeros>>, cut |-> 0],
   [kind |-> "valid", records |-> <<>>, cut |-> 0],
   [kind |-> "wrongScheme", records |-> <<RecFull>>, cut |-> 0],
   [kind |-> "truncated", records |-> <<RecFull, RecHotp>>, cut |-> 1]}

\* A run has one URI of any case, or 2..MaxUrls URIs of the batch cases.
Batches ==
  {<<c>> : c \in Cases} \cup UNION {[1..n -> BatchCases] : n \in 2..MaxUrls}

(***************************************************************************)
(* The run: processAllUrls(process.argv.slice(2)).                         *)
(***************************************************************************)

VARIABLES
  cases,          \* the case each URI was built from (not read by the program)
  migrationUrls,  \* the command-line arguments
  pc,             \* where processAllUrls is: "map", "await", "flat", "qr", "done"
  promises,       \* allAccountsPromises: the value each decodeUrl call resolved with
  calls,          \* per decodeUrl call: failedAt, handed, decoded
  values,         \* Promise.all's result array: a slot is <<>> until its promise settles
  settled,        \* the order in which Promise.all saw the promises settle
  allAccounts,    \* allAccounts, the array generateQRCodes fills in place
  i,              \* the loop index of generateQRCodes
  console,        \* console.log / console.error calls, in order
  file            \* the writeFileSync calls that returned, in order

vars ==
  <<cases, migrationUrls, pc, promises, calls, values, settled, allAccounts, i, console, file>>

Init ==
  /\ cases \in Batches
  /\ migrationUrls = [k \in 1..Len(cases) |-> BuildUrl(cases[k])]
  /\ pc = "map"
  /\ promises = <<>>
  /\ calls = <<>>
  /\ values = [k \in 1..Len(cases) |-> <<>>]
  /\ settled = <<>>
  /\ allAccounts = <<>>
  /\ i = 0
  /\ console = <<>>
  /\ file = <<>>

\* console.error('Error decoding migration data:', error) of the call for URI k.
DecodeError(k) == [method |-> "error", msg |-> "Error decoding migration data:", url |-> k]

ProcessError == [method |-> "error", msg |-> "Error processing URLs:", url |-> 0]

NoAccounts == [method |-> "log", msg |-> "No valid accounts found.", url |-> 0]

Generated == [method |-> "log", msg |-> "HTML file generated:", url |-> 0]

Total(n) == [method |-> "log", msg |-> "Total accounts: " \o ToString(n), url |-> 0]

\* The promise of call k is resolved with r.accounts.
Called(k, r) ==
  /\ promises' = Append(promises, r.accounts)
  /\ calls' = Append(calls, [failedAt |-> r.failedAt, handed |-> r.handed,
                             decoded |-> r.decoded])
  /\ console' = IF r.errors = 1 THEN Append(console, DecodeError(k)) ELSE console
  /\ pc' = IF k = Len(migrationUrls) THEN "await" ELSE "map"

\* migrationUrls.map(url => decodeUrl(url)): the next call, in argument order.
\* After the last one Promise.all is called and processAllUrls awaits it.
CallDecodeUrl ==
  /\ pc = "map"
  /\ Called(Len(promises) + 1, decodeUrl(migrationUrls[Len(promises) + 1]))
  /\ UNCHANGED <<cases, migrationUrls, values, settled, allAccounts, i, file>>

\* Mutant of ResolveElement: values are stored in the order of completion.
ResolveElementInCompletionOrder(vals, k, value) ==
  [vals EXCEPT ![Len(settled) + 1] = <<value>>]

\* What Promise.all does with the value of its k-th promise.
ResolveElement(vals, k, value) == [vals EXCEPT ![k] = <<value>>]

\* Promise.all's reaction to promise k: the promises may be taken in any
\* order.  With the last one the await of processAllUrls resumes.
Settle(k) ==
  /\ pc = "await"
  /\ k \notin Range(settled)
  /\ values' = ResolveElement(values, k, promises[k])
  /\ settled' = Append(settled, k)
  /\ pc' = IF Len(settled') = Len(promises) THEN "flat" ELSE "await"
  /\ UNCHANGED <<cases, migrationUrls, promises, calls, allAccounts, i, console, file>>

\* Mutant of Collect: no length check before the QR codes and the file.
CollectUnchecked ==
  /\ pc = "flat"
  /\ allAccounts' = Flat([k \in DOMAIN values |-> values[k][1]])
  /\ console' = console
  /\ pc' = "qr"
  /\ UNCHANGED <<cases, migrationUrls, promises, calls, values, settled, i, file>>

\* allAccountsArrays.flat() and the length check.
Collect ==
  /\ pc = "flat"
  /\ allAccounts' = Flat([k \in DOMAIN values |-> values[k][1]])
  /\ IF allAccounts' = <<>>
     THEN console' = Append(console, NoAccounts) /\ pc' = "done"
     ELSE console' = console /\ pc' = "qr"
  /\ UNCHANGED <<cases, migrationUrls, promises, calls, values, settled, i, file>>

\* qrcode.toDataURL(account.otpauthUrl) resolves for accounts[i].
QrResolved ==
  /\ pc = "qr"
  /\ i < Len(allAccounts)
  /\ allAccounts' = [allAccounts EXCEPT ![i + 1].qrCodeDataUrl =
                       <<UrlString(allAccounts[i + 1].otpauthUrl)>>]
  /\ i' = i + 1
  /\ UNCHANGED <<cases, migrationUrls, pc, promises, calls, values, settled, console, file>>

\* Mutant of QrRejected: the rejection is swallowed inside the loop.
QrRejectedSkipped ==
  /\ pc = "qr"
  /\ i < Len(allAccounts)
  /\ i' = i + 1
  /\ UNCHANGED <<cases, migrationUrls, pc, promises, calls, values, settled,
                 allAccounts, console, file>>

\* qrcode.toDataURL rejects (the URL does not fit in a QR code): the await
\* throws into the catch block of processAllUrls.
QrRejected ==
  /\ pc = "qr"
  /\ i < Len(allAccounts)
  /\ console' = Append(console, ProcessError)
  /\ pc' = "done"
  /\ UNCHANGED <<cases, migrationUrls, promises, calls, values, settled, allAccounts, i, file>>

\* generateQRCodes returned: generateHtml, writeFileSync and the two logs.
WriteHtml ==
  /\ pc = "qr"
  /\ i = Len(allAccounts)
  /\ file' = Append(file, generateHtml(allAccounts))
  /\ console' = console \o <<Generated, Total(Len(allAccounts))>>
  /\ pc' = "done"
  /\ UNCHANGED <<cases, migrationUrls, promises, calls, values, settled, allAccounts, i>>

\* writeFileSync throws (the file cannot be written): caught the same way.
WriteFailed ==
  /\ pc = "qr"
  /\ i = Len(allAccounts)
  /\ console' = Append(console, ProcessError)
  /\ pc' = "done"
  /\ UNCHANGED <<cases, migrationUrls, promises, calls, values, settled, allAccounts, i, file>>

Next ==
  \/ CallDecodeUrl
  \/ \E k \in DOMAIN values : Settle(k)
  \/ Collect
  \/ QrResolved
  \/ QrRejected
  \/ WriteHtml
  \/ WriteFailed

Spec == Init /\ [][Next]_vars

(***************************************************************************)
(* Properties.                                                             *)
(***************************************************************************)

\* The cases whose payload bytes are a complete encoding of their records.
Intact(c) == c.kind \in {"valid", "batched", "unknownField", "badBase64"}

\* The cases that should decode: an intact payload of at least one record,
\* every record with a secret.
ExpectedOk(c) ==
  /\ Intact(c)
  /\ c.records # <<>>
  /\ \A j \in DOMAIN c.records : c.records[j].secret # <<>>

\* What is left of a longString case's first record: its secret, and as name
\* every byte of the payload after the name's length byte.
LongRecord(c) ==
  LET r == c.records[1]
      start == 2 + (IF r.secret = <<>> THEN 0 ELSE 2 + Len(r.secret[1])) + 2
      payload == PayloadBytes(c)
  IN  [secret |-> r.secret,
       name |-> <<utf8Slice(SubSeq(payload, start + 1, Len(payload)))>>,
       issuer |-> <<>>, algorithm |-> <<>>, digits |-> <<>>, type |-> <<>>,
       counter |-> <<>>]

\* The records a case's call returns output records for.
ExpectedRecords(c) ==
  IF ExpectedOk(c) THEN c.records
  ELSE IF c.kind = "longString" /\ c.records[1].secret # <<>> THEN <<LongRecord(c)>>
  ELSE <<>>

HasParam(url, key) == \E j \in DOMAIN url.queryParams : url.queryParams[j].k = key

ParamValues(url, key) ==
  {url.queryParams[j].v : j \in {n \in DOMAIN url.queryParams : url.queryParams[n].k = key}}

\* Account a is the output record of the encoded record r.
Matches(a, r) ==
  /\ a.name = r.name
  /\ a.issuer = r.issuer
  /\ a.secret = toHex(r.secret[1])
  /\ HasParam(a.otpauthUrl, "counter") =>
       r.counter # <<>> /\ ParamValues(a.otpauthUrl, "counter") = {ToString(r.counter[1])}

Logged(entry) == Cardinality({j \in DOMAIN console : console[j] = entry})

WithoutQr(accounts) ==
  [j \in DOMAIN accounts |-> [accounts[j] EXCEPT !.qrCodeDataUrl = <<>>]]

\* The call for URI k returned one output record per encoded record.
Corresponds(k) ==
  /\ Intact(cases[k])
  /\ promises[k] # <<>>
  /\ Len(promises[k]) = Len(cases[k].records)

\* C1 - batch partial failure: a URI whose processing raises is logged exactly
\* once by its own decodeUrl call and contributes no record, a URI that does
\* not raise is not logged; a wrong scheme or host fails in the unwrapper, a
\* truncated or invalid payload in the decoder; every URI is processed, no
\* failure of one URI reaches processAllUrls, and the total list is the
\* concatenation of what the calls that did not fail returned.
C1_BatchPartialFailure ==
  /\ \A k \in DOMAIN promises :
       /\ calls[k].failedAt = "none" => Logged(DecodeError(k)) = 0
       /\ calls[k].failedAt # "none" =>
            Logged(DecodeError(k)) = 1 /\ promises[k] = <<>>
       /\ cases[k].kind \in {"wrongScheme", "wrongHost"} =>
            calls[k].failedAt = "extract"
       /\ cases[k].kind \in {"invalidWire", "truncated"} =>
            calls[k].failedAt = "decode"
       /\ ExpectedRecords(cases[k]) # <<>> =>
            /\ calls[k].failedAt = "none"
            /\ Len(promises[k]) = Len(ExpectedRecords(cases[k]))
  /\ pc # "map" => Len(promises) = Len(migrationUrls)
  /\ pc \in {"map", "await", "flat"} => Logged(ProcessError) = 0
  /\ pc \in {"qr", "done"} =>
       /\ WithoutQr(allAccounts) = Flat(promises)
       /\ Len(allAccounts) =
            Len(Flat([k \in DOMAIN cases |-> ExpectedRecords(cases[k])]))

\* One wrong-scheme URI and one valid URI of two accounts: two records and
\* exactly one logged failure.
C1_Witness ==
  /\ pc = "done"
  /\ Len(cases) = 2
  /\ cases[1].kind = "wrongScheme"
  /\ cases[2].kind = "valid"
  /\ Len(cases[2].records) = 2
  /\ Len(allAccounts) = 2
  /\ Len(SelectSeq(console, LAMBDA e : e.method = "error")) = 1
  /\ file # <<>>

\* C2 - order under parallel decoding: whatever the order in which the
\* promises settle, the account list is, in argument order, the records of
\* each URI in their encoded order.
C2_InputOrder ==
  pc \in {"qr", "done"} =>
    LET expected == Flat([k \in DOMAIN cases |-> ExpectedRecords(cases[k])])
    IN  /\ Len(allAccounts) = Len(expected)
        /\ \A j \in DOMAIN allAccounts : Matches(allAccounts[j], expected[j])

\* The second URI settled before the first, and both gave records.
C2_Witness ==
  /\ pc = "done"
  /\ Len(settled) >= 2
  /\ settled[1] > settled[2]
  /\ promises[settled[1]] # <<>>
  /\ promises[settled[2]] # <<>>
  /\ Len(allAccounts) >= 3

\* C3 - no partial record list, as claimed: a decodeUrl call returns the
\* empty list or one output record for each record encoded in the payload, in
\* order; a payload cut inside a record, ending in an invalid wire type or
\* declaring a string longer than the payload gives the empty list.
C3_NoPartialList ==
  \A k \in DOMAIN promises :
    /\ cases[k].kind \in {"truncated", "invalidWire", "longString"} =>
         promises[k] = <<>>
    /\ promises[k] # <<>> =>
         /\ Corresponds(k)
         /\ Len(promises[k]) = calls[k].decoded
         /\ \A j \in DOMAIN promises[k] : Matches(promises[k][j], cases[k].records[j])

\* C4 - default resolution, as claimed: a record without algorithm, digits
\* and type fields on the wire is reconstructed as totp / SHA1 / 6 with
\* period=30 and no counter.
C4_DefaultResolution ==
  \A k \in DOMAIN promises :
    Corresponds(k) =>
      \A j \in DOMAIN promises[k] :
        LET r == cases[k].records[j]
            u == promises[k][j].otpauthUrl
        IN  (r.algorithm = <<>> /\ r.digits = <<>> /\ r.type = <<>>) =>
              /\ u.otpType = "totp"
              /\ ParamValues(u, "algorithm") = {"SHA1"}
              /\ ParamValues(u, "digits") = {"6"}
              /\ ParamValues(u, "period") = {"30"}
              /\ ~HasParam(u, "counter")

\* C5 - counter/period inclusion, as claimed: counter only for hotp with a
\* non-zero counter, period only for totp and then 30, never both.
C5_CounterPeriod ==
  \A k \in DOMAIN promises :
    Corresponds(k) =>
      \A j \in DOMAIN promises[k] :
        LET r == cases[k].records[j]
            u == promises[k][j].otpauthUrl
        IN  /\ HasParam(u, "counter") =>
                 u.otpType = "hotp" /\ r.counter # <<>> /\ r.counter[1] # 0
            /\ HasParam(u, "period") =>
                 u.otpType = "totp" /\ ParamValues(u, "period") = {"30"}
            /\ ~(HasParam(u, "counter") /\ HasParam(u, "period"))

\* C6 - totality of reconstruction, as claimed: a payload that decodes to N
\* records yields N output records.
C6_ReconstructionTotal ==
  \A k \in DOMAIN promises :
    calls[k].failedAt \notin {"extract", "decode"} =>
      Len(promises[k]) = calls[k].decoded

\* C7 - malformed base64 is rejected, as claimed: with the right scheme and
\* host and a data parameter that is not valid base64, the unwrapper raises
\* and no bytes reach the payload decoder.
C7_MalformedBase64Rejected ==
  \A k \in DOMAIN calls :
    (/\ migrationUrls[k].protocol = "otpauth-migration:"
     /\ migrationUrls[k].host = "offline"
     /\ ~ValidBase64(SpacesToPlus(QueryValue(migrationUrls[k].data)))) =>
      calls[k].failedAt = "extract" /\ calls[k].handed = <<>>

\* C8 - output file gating, as claimed: at the end of a run the file is
\* written if and only if the total number of records is at least 1.
C8_WrittenIffRecords ==
  pc = "done" => (file # <<>> <=> Len(Flat(promises)) >= 1)

\* C8 as amended: the file is written at most once and only if there is at
\* least one record; with no record the run logs that none was found and
\* writes nothing; with at least one record the file is written exactly when
\* neither a QR code nor the write itself raised; a written file has one row
\* per record and their number as total.
C8_OutputGating ==
  LET total == Len(Flat(promises))
  IN  /\ Len(file) <= 1
      /\ file # <<>> =>
           /\ total >= 1
           /\ Len(file[1].rows) = total
           /\ file[1].total = total
           /\ Logged(Total(total)) = 1
      /\ pc = "done" /\ total = 0 =>
           /\ file = <<>>
           /\ Logged(NoAccounts) = 1
           /\ Logged(ProcessError) = 0
      /\ pc = "done" /\ total >= 1 =>
           /\ Logged(NoAccounts) = 0
           /\ file # <<>> <=> Logged(ProcessError) = 0

\* Two URIs, three records, all QR codes generated, the file written.
C8_Witness ==
  /\ pc = "done"
  /\ Len(cases) = 2
  /\ file # <<>>
  /\ file[1].total = 3
  /\ Len(file[1].rows) = 3

C10_AllOrNothing ==
  /\ Len(file) <= 1
  /\ file # <<>> =>
       /\ Len(settled) = Len(migrationUrls)
       /\ i = Len(allAccounts)
       /\ \A j \in DOMAIN allAccounts :
            /\ allAccounts[j].qrCodeDataUrl = <<UrlString(allAccounts[j].otpauthUrl)>>
            /\ file[1].rows[j].img = allAccounts[j].qrCodeDataUrl
  /\ \A j \in DOMAIN allAccounts : allAccounts[j].qrCodeDataUrl # <<>> <=> j <= i
  /\ pc = "qr" => Len(settled) = Len(migrationUrls)
  /\ Logged(ProcessError) <= 1
  /\ Logged(ProcessError) = 1 => pc = "done" /\ file = <<>>
  /\ pc \in {"map", "await", "flat", "qr", "done"}
  /\ pc = "map" => Len(promises) < Len(migrationUrls)
  /\ pc = "await" => \E k \in DOMAIN values : k \notin Range(settled)
  /\ pc = "qr" => i <= Len(allAccounts)

\* QR generation failed for the second account after the first one got its
\* code: the run ended without a file.
C10_Witness ==
  /\ pc = "done"
  /\ i = 1
  /\ Len(allAccounts) >= 2
  /\ allAccounts[1].qrCodeDataUrl # <<>>
  /\ Logged(ProcessError) = 1
  /\ file = <<>>

====
